---- MODULE Spec2Model ----
(***************************************************************************)
(* Model of app/static/js/main.js: the inline form validation of the       *)
(* video_url and password fields and the toast notifications of            *)
(* showNotification, driven by browser events and setTimeout callbacks.    *)
(* The value of the video_url field is a sequence of characters (UTF-16     *)
(* code units), each a string: an ASCII character stands for itself, the   *)
(* line separator and the paragraph separator are "U+2028" and "U+2029".   *)
(* Other strings are TLC strings.  Times are in milliseconds.              *)
(***************************************************************************)
EXTENDS Integers, Sequences, FiniteSets, TLC

VARIABLES
    hasVideoUrl,    \* the page holds an element with id video_url
    hasPassword,    \* the page holds an element with id password
    body,           \* document.body is available (not null)
    loaded,         \* DOMContentLoaded has been dispatched
    blurListeners,  \* number of blur listeners on the video_url element
    inputListeners, \* number of input listeners on the password element
    urlValue,       \* videoUrlInput.value
    urlBorder,      \* videoUrlInput.style.borderColor
    pwValue,        \* passwordInput.value
    pwBorder,       \* passwordInput.style.borderColor
    nodes,          \* the elements created by showNotification, in call order
    calls,          \* per showNotification call: arguments, outcome, time since the call
    timers,         \* the pending setTimeout callbacks
    thrown,         \* the error the last event handler let escape ("none" if none)
    event           \* the last event or callback that ran

vars == <<hasVideoUrl, hasPassword, body, loaded, blurListeners, inputListeners,
          urlValue, urlBorder, pwValue, pwBorder, nodes, calls, timers, thrown, event>>

formVars == <<urlValue, urlBorder, pwValue, pwBorder>>
pageVars == <<hasVideoUrl, hasPassword, body, loaded, blurListeners, inputListeners>>
toastVars == <<nodes, calls, timers>>

(***************************************************************************)
(* Bounds of the model.                                                    *)
(***************************************************************************)
MaxCalls == 2        \* showNotification calls per behaviour of Spec
MaxNotifyCalls == 2  \* showNotification calls per behaviour of NotifySpec and UrlSpec
MaxTimedCalls == 1   \* showNotification calls per behaviour of TimedSpec
MaxPwLen == 11       \* longest password typed
MaxElapsed == 4000   \* the time since a call is tracked up to this many ms

(***************************************************************************)
(* Program constants.                                                      *)
(***************************************************************************)
DisplayDelay == 3000
ExitDelay == 300
WeakBelow == 6
MediumBelow == 10

Red == "#e74c3c"
Green == "#27ae60"
Orange == "#f39c12"
Blue == "#3498db"
Unset == ""

\* the fixed message of the blur handler (the Russian text of line 8, transliterated:
\* strings of the model are ASCII)
UrlMessage == "Pozhaluysta, vvedite korrektnuyu ssylku na YouTube video"
SlideIn == "slideIn 0.3s ease"
SlideOut == "slideOut 0.3s ease"

Min(a, b) == IF a < b THEN a ELSE b
Max(a, b) == IF a > b THEN a ELSE b

(***************************************************************************)
(* Regular expressions, as far as youtubePattern uses them.                *)
(***************************************************************************)
\* the characters of an ASCII string
RECURSIVE Chars(_)
Chars(str) ==
    IF str = "" THEN <<>>
    ELSE <<SubSeq(str, 1, 1)>> \o Chars(SubSeq(str, 2, Len(str)))

Lit(str) == [op |-> "lit", s |-> Chars(str)]
AnyChar == [op |-> "dot"]
Opt(r) == [op |-> "opt", r |-> r]
Plus(r) == [op |-> "plus", r |-> r]
Alt(a, b) == [op |-> "alt", a |-> a, b |-> b]
Cat(rs) == [op |-> "cat", rs |-> rs]
Bol == [op |-> "bol"]
Eol == [op |-> "eol"]

\* LineTerminator of ECMAScript: <LF>, <CR>, <LS>, <PS>
LineTerminators == {"\n", "\r", "U+2028", "U+2029"}

\* '.' with the s flag: every character matches
DotAll(c) == TRUE

\* '.' matches any character but a line terminator (the pattern has no s flag)
Dot(c) == c \notin LineTerminators

RECURSIVE Ends(_, _, _)
RECURSIVE CatEnds(_, _, _)
RECURSIVE PlusEnds(_, _, _)

\* The positions (number of characters consumed) at which a match of re that
\* starts at one of the positions P of s can end.
Ends(re, s, P) ==
    CASE re.op = "lit" ->
            {p + Len(re.s) : p \in {q \in P : /\ q + Len(re.s) <= Len(s)
                                             /\ SubSeq(s, q + 1, q + Len(re.s)) = re.s}}
      [] re.op = "dot" ->
            {p + 1 : p \in {q \in P : q < Len(s) /\ Dot(s[q + 1])}}
      [] re.op = "opt" -> P \cup Ends(re.r, s, P)
      [] re.op = "plus" -> PlusEnds(re.r, s, Ends(re.r, s, P))
      [] re.op = "alt" -> Ends(re.a, s, P) \cup Ends(re.b, s, P)
      [] re.op = "cat" -> CatEnds(re.rs, s, P)
      [] re.op = "bol" -> P \cap {0}
      [] re.op = "eol" -> P \cap {Len(s)}

CatEnds(rs, s, P) ==
    IF rs = <<>> THEN P ELSE CatEnds(Tail(rs), s, Ends(Head(rs), s, P))

\* one or more repetitions: E holds the ends of one or more matches of r
PlusEnds(r, s, E) ==
    LET more == E \cup Ends(r, s, E)
    IN  IF more = E THEN E ELSE PlusEnds(r, s, more)

\* RegExp.prototype.test without the g or y flag: a match may start anywhere
Test(re, s) == Ends(re, s, 0..Len(s)) # {}

\* youtu.?be with an unescaped dot: any single character may stand before "be"
YoutuAnyBe == Cat(<<Lit("youtu"), Opt(AnyChar), Lit("be")>>)

\* youtu\.?be : an optional literal dot
YoutuBe == Cat(<<Lit("youtu"), Opt(Lit(".")), Lit("be")>>)

\* /^(https?:\/\/)?(www\.)?(youtube\.com|youtu\.?be)\/.+$/
youtubePattern ==
    Cat(<<Bol,
          Opt(Cat(<<Lit("http"), Opt(Lit("s")), Lit("://")>>)),
          Opt(Lit("www.")),
          Alt(Lit("youtube.com"), YoutuBe),
          Lit("/"),
          Plus(AnyChar),
          Eol>>)

\* the condition without the truthiness test of this.value
UrlInvalidNoEmptyCheck(value) == ~Test(youtubePattern, value)

\* the condition of the blur handler's if: this.value && !youtubePattern.test(this.value)
UrlInvalid(value) == value # <<>> /\ ~Test(youtubePattern, value)

\* the thresholds compared with <= instead of <
StrengthColorOffByOne(value) ==
    LET strength == Len(value) IN
    IF strength <= WeakBelow THEN Red
    ELSE IF strength <= MediumBelow THEN Orange
    ELSE Green

\* the border colour the password input handler chooses
StrengthColor(value) ==
    LET strength == Len(value) IN
    IF strength < WeakBelow THEN Red
    ELSE IF strength < MediumBelow THEN Orange
    ELSE Green

\* the background showNotification picks for a type
Background(type) ==
    IF type = "success" THEN Green
    ELSE IF type = "error" THEN Red
    ELSE Blue

(***************************************************************************)
(* Inputs.                                                                 *)
(***************************************************************************)
Schemes == {"", "http://", "https://"}
Wwws == {"", "www."}
Hosts == {"youtube.com", "youtu.be", "youtube", "youtuXbe"}
Tails == {"/abc123"}

\* the values of the video_url field tried in UrlSpec: ASCII values, and values
\* that hold a line separator or a paragraph separator (an input element keeps
\* these; it strips only LF and CR)
AsciiUrlValues ==
    {sch \o w \o h \o t : sch \in Schemes, w \in Wwws, h \in Hosts, t \in Tails}
    \cup {"", "x", "ftp://example.com", "https://youtu.be/abc123", "youtu.be",
          " https://youtu.be/abc123", "HTTPS://YOUTU.BE/abc123",
          "https://m.youtube.com/watch?v=abc123",
          "https://www.youtube.com/watch?v=abc123",
          "wwwXyoutube.com/a", "httpss://youtu.be/a", "ftp://youtu.be/a",
          "www.https://youtu.be/a", "youtu.be//", "youtubeXcom/a", "youtu..be/a",
          "https://youtube.com", "https:/youtube.com/a",
          "youtube.com/", "https://youtu.be/", "http://www.youtube/", "youtuXbe/"}

SeparatorUrlValues ==
    {Chars("youtube.com/") \o <<"U+2028">>,
     Chars("youtube.com/") \o <<"U+2029">>,
     Chars("https://youtu.be/abc") \o <<"U+2028">>,
     Chars("https://youtu.be/") \o <<"U+2029">> \o Chars("abc"),
     <<"U+2028">> \o Chars("https://youtu.be/abc"),
     Chars("ftp://example.com/") \o <<"U+2028">>}

UrlValues == {Chars(u) : u \in AsciiUrlValues} \cup SeparatorUrlValues

\* the values of the concrete scenario
ScenarioUrls == {Chars(u) : u \in {"", "https://youtu.be/abc123", "ftp://example.com"}}

\* the values one keystroke (a typed character, or a backspace) leads to
Keystrokes(value) ==
    {value \o c : c \in IF Len(value) < MaxPwLen THEN {"a", "9"} ELSE {}}
    \cup (IF value = "" THEN {} ELSE {SubSeq(value, 1, Len(value) - 1)})

ScenarioPasswords == {"", "abc12", "abc123", "abc1234567"}

Messages == {"x"}
Types == {"success", "error", "info", "warning"}

\* the time steps of TimedSpec
TimedSteps == {100}

(***************************************************************************)
(* showNotification(message, type)                                         *)
(***************************************************************************)
\* document.createElement('div') with className, textContent, cssText, background
NewNotification(message, type) ==
    [className |-> "notification " \o type,
     textContent |-> message,
     animation |-> SlideIn,
     background |-> Background(type),
     inBody |-> FALSE]

\* the append guarded, so that a missing body goes unnoticed
AppendErrorSwallowed == "none"

\* document.body.appendChild(notification) when document.body is null
AppendError == IF body THEN "none" ELSE "TypeError"

\* both timers scheduled by the call, side by side instead of nested
TimersOfCallBoth(id) ==
    {[callback |-> "slideOut", node |-> id, remaining |-> DisplayDelay],
     [callback |-> "remove", node |-> id, remaining |-> ExitDelay]}

\* the timers the call itself schedules for the node it created
TimersOfCall(id) == {[callback |-> "slideOut", node |-> id, remaining |-> DisplayDelay]}

\* the inner setTimeout without its delay
TimersOfSlideOutNoDelay(id) == {[callback |-> "remove", node |-> id, remaining |-> 0]}

\* the inner setTimeout forgotten
TimersOfSlideOutNone(id) == {}

\* the timers the slideOut callback schedules
TimersOfSlideOut(id) == {[callback |-> "remove", node |-> id, remaining |-> ExitDelay]}

\* notification as one shared variable: a callback acts on the latest node
ClosureNodeShared(t) == Len(nodes)

\* the node a callback acts on: the const notification its closure captured
ClosureNode(t) == t.node

showNotification(message, type) ==
    LET id == Len(nodes) + 1
        notification == NewNotification(message, type)
        err == AppendError
    IN  /\ thrown' = err
        /\ calls' = Append(calls, [message |-> message, type |-> type,
                                   threw |-> err, elapsed |-> 0])
        /\ IF err = "none"
           THEN /\ nodes' = Append(nodes, [notification EXCEPT !.inBody = TRUE])
                /\ timers' = timers \cup TimersOfCall(id)
           ELSE /\ nodes' = Append(nodes, notification)
                /\ timers' = timers

(***************************************************************************)
(* Events.                                                                 *)
(***************************************************************************)
\* the parser reaches <body>
BodyParsed ==
    /\ ~body
    /\ body' = TRUE
    /\ event' = "body"
    /\ thrown' = "none"
    /\ UNCHANGED <<hasVideoUrl, hasPassword, loaded, blurListeners, inputListeners>>
    /\ UNCHANGED <<formVars, toastVars>>

\* the listener without its existence checks: addEventListener on null throws
DOMContentLoadedUnguarded ==
    /\ body /\ ~loaded
    /\ loaded' = TRUE
    /\ blurListeners' = IF hasVideoUrl THEN blurListeners + 1 ELSE blurListeners
    /\ inputListeners' = IF hasVideoUrl /\ hasPassword THEN inputListeners + 1
                         ELSE inputListeners
    /\ event' = "load"
    /\ thrown' = IF hasVideoUrl /\ hasPassword THEN "none" ELSE "TypeError"
    /\ UNCHANGED <<hasVideoUrl, hasPassword, body, formVars, toastVars>>

\* the DOMContentLoaded listener
DOMContentLoaded ==
    /\ body /\ ~loaded
    /\ loaded' = TRUE
    /\ blurListeners' = IF hasVideoUrl THEN blurListeners + 1 ELSE blurListeners
    /\ inputListeners' = IF hasPassword THEN inputListeners + 1 ELSE inputListeners
    /\ event' = "load"
    /\ thrown' = "none"
    /\ UNCHANGED <<hasVideoUrl, hasPassword, body, formVars, toastVars>>

\* the user edits the video_url field (no handler is bound to this)
EditUrl(v) ==
    /\ hasVideoUrl /\ body
    /\ v # urlValue
    /\ urlValue' = v
    /\ event' = "edit"
    /\ thrown' = "none"
    /\ UNCHANGED <<pageVars, urlBorder, pwValue, pwBorder, toastVars>>

\* the blur listener, showing no second notification while one is in the body
BlurHandlerDedup ==
    IF UrlInvalid(urlValue)
    THEN /\ urlBorder' = Red
         /\ IF \E i \in 1..Len(nodes) : nodes[i].inBody /\ nodes[i].textContent = UrlMessage
            THEN thrown' = "none" /\ UNCHANGED toastVars
            ELSE showNotification(UrlMessage, "error")
    ELSE /\ urlBorder' = Green
         /\ thrown' = "none"
         /\ UNCHANGED toastVars

\* the blur listener of videoUrlInput
BlurHandler ==
    IF UrlInvalid(urlValue)
    THEN /\ urlBorder' = Red
         /\ showNotification(UrlMessage, "error")
    ELSE /\ urlBorder' = Green
         /\ thrown' = "none"
         /\ UNCHANGED toastVars

Blur(max) ==
    /\ hasVideoUrl /\ blurListeners > 0
    /\ UrlInvalid(urlValue) => Len(nodes) < max
    /\ BlurHandler
    /\ event' = "blur"
    /\ UNCHANGED <<pageVars, urlValue, pwValue, pwBorder>>

\* the input listener of passwordInput, run as the user changes the value to v
InputHandler(v) ==
    /\ pwValue' = v
    /\ pwBorder' = StrengthColor(v)

Input(v) ==
    /\ hasPassword /\ inputListeners > 0
    /\ v # pwValue
    /\ InputHandler(v)
    /\ event' = "input"
    /\ thrown' = "none"
    /\ UNCHANGED <<pageVars, urlValue, urlBorder, toastVars>>

\* another script calls window.showNotification
Call(max, message, type) ==
    /\ Len(nodes) < max
    /\ showNotification(message, type)
    /\ event' = "call"
    /\ UNCHANGED <<pageVars, formVars>>

\* time passes: d ms
Tick(d) ==
    /\ \/ \E i \in 1..Len(calls) : calls[i].elapsed < MaxElapsed
       \/ \E t \in timers : t.remaining > 0
    /\ calls' = [i \in 1..Len(calls) |->
                    [calls[i] EXCEPT !.elapsed = Min(@ + d, MaxElapsed)]]
    /\ timers' = {[t EXCEPT !.remaining = Max(@ - d, 0)] : t \in timers}
    /\ event' = "tick"
    /\ thrown' = "none"
    /\ UNCHANGED <<pageVars, formVars, nodes>>

\* the outer setTimeout callback
SlideOutCallback(t) ==
    /\ t \in timers /\ t.callback = "slideOut" /\ t.remaining = 0
    /\ nodes' = [nodes EXCEPT ![ClosureNode(t)].animation = SlideOut]
    /\ timers' = (timers \ {t}) \cup TimersOfSlideOut(ClosureNode(t))
    /\ event' = "slideOut"
    /\ thrown' = "none"
    /\ UNCHANGED <<pageVars, formVars, calls>>

\* the inner setTimeout callback: document.body.removeChild(notification)
RemoveCallback(t) ==
    /\ t \in timers /\ t.callback = "remove" /\ t.remaining = 0
    /\ timers' = timers \ {t}
    /\ IF nodes[ClosureNode(t)].inBody
       THEN /\ nodes' = [nodes EXCEPT ![ClosureNode(t)].inBody = FALSE]
            /\ thrown' = "none"
       ELSE /\ nodes' = nodes
            /\ thrown' = "NotFoundError"
    /\ event' = "remove"
    /\ UNCHANGED <<pageVars, formVars, calls>>

Init ==
    /\ hasVideoUrl \in BOOLEAN
    /\ hasPassword \in BOOLEAN
    /\ body = FALSE
    /\ loaded = FALSE
    /\ blurListeners = 0
    /\ inputListeners = 0
    /\ urlValue = <<>>
    /\ urlBorder = Unset
    /\ pwValue = ""
    /\ pwBorder = Unset
    /\ nodes = <<>>
    /\ calls = <<>>
    /\ timers = {}
    /\ thrown = "none"
    /\ event = "init"

PageNext ==
    \/ BodyParsed
    \/ DOMContentLoaded

TimerNext ==
    \/ \E t \in timers : SlideOutCallback(t)
    \/ \E t \in timers : RemoveCallback(t)

\* the whole program on the values of the concrete scenario
Next ==
    \/ PageNext
    \/ \E v \in ScenarioUrls : EditUrl(v)
    \/ Blur(MaxCalls)
    \/ \E v \in ScenarioPasswords : Input(v)
    \/ \E m \in Messages : Call(MaxCalls, m, "info")
    \/ Tick(DisplayDelay)
    \/ TimerNext

Spec == Init /\ [][Next]_vars

\* the video_url field over UrlValues
UrlNext ==
    \/ PageNext
    \/ \E v \in UrlValues : EditUrl(v)
    \/ Blur(MaxNotifyCalls)
    \/ Tick(DisplayDelay)
    \/ TimerNext

UrlSpec == Init /\ [][UrlNext]_vars

\* the password field, keystroke by keystroke
PwNext ==
    \/ PageNext
    \/ \E v \in Keystrokes(pwValue) : Input(v)

PwSpec == Init /\ [][PwNext]_vars

\* the notifier alone, called by other scripts
NotifyNext ==
    \/ BodyParsed
    \/ \E m \in Messages, ty \in Types : Call(MaxNotifyCalls, m, ty)
    \/ Tick(DisplayDelay)
    \/ TimerNext

NotifySpec == Init /\ [][NotifyNext]_vars

\* timers fire once they are due, and time passes
FairSpec ==
    /\ NotifySpec
    /\ WF_vars(Tick(DisplayDelay))
    /\ WF_vars(TimerNext)

\* the notifier in steps of 100 ms
TimedNext ==
    \/ BodyParsed
    \/ \E m \in Messages, ty \in Types : Call(MaxTimedCalls, m, ty)
    \/ \E d \in TimedSteps : Tick(d)
    \/ TimerNext

TimedSpec == Init /\ [][TimedNext]_vars

(***************************************************************************)
(* Properties.                                                             *)
(***************************************************************************)
\* the indices of the notification nodes that are children of the body
InBody(ns) == {i \in 1..Len(ns) : ns[i].inBody}

\* the nodes a pending timer will act on
Pending(ts) == {t.node : t \in ts}

\* the nodes a pending removal timer will act on
PendingRemoval(ts) == {t.node : t \in {u \in ts : u.callback = "remove"}}

\* the YouTube URL pattern as prose states it: optional scheme, optional "www.",
\* one of the hosts, "/", and at least one more character
HasPrefix(S, pre) == Len(S) >= Len(pre) /\ SubSeq(S, 1, Len(pre)) = pre

\* the part of S after "/" for the prefixes of the pattern S starts with
Remainders(S) ==
    {SubSeq(S, Len(pre) + 1, Len(S)) :
        pre \in {p \in {Chars(sch \o w \o h \o "/") :
                            sch \in {"", "http://", "https://"}, w \in {"", "www."},
                            h \in {"youtube.com", "youtu.be", "youtube"}} :
                    HasPrefix(S, p)}}

MatchesYouTube(S) == \E rest \in Remainders(S) : rest # <<>>

\* the same, the characters after "/" being on one line
MatchesYouTubeOnOneLine(S) ==
    \E rest \in Remainders(S) :
        /\ rest # <<>>
        /\ \A k \in 1..Len(rest) : rest[k] \notin {"\n", "\r", "U+2028", "U+2029"}

\* C1 as stated: a blur of the video_url field sets the border to #27ae60 iff
\* the value is empty or matches the YouTube URL pattern, whose end is "/" and
\* at least one more character, and then creates no notification; otherwise it
\* sets the border to #e74c3c and creates exactly one error notification.
C1_AnyCharactersAfterSlash ==
    [][event' = "blur" =>
        IF urlValue = <<>> \/ MatchesYouTube(urlValue)
        THEN /\ urlBorder' = "#27ae60"
             /\ nodes' = nodes /\ calls' = calls /\ timers' = timers
        ELSE /\ urlBorder' = "#e74c3c"
             /\ Len(nodes') = Len(nodes) + 1
             /\ SubSeq(nodes', 1, Len(nodes)) = nodes
             /\ nodes'[Len(nodes')].className = "notification error"
             /\ nodes'[Len(nodes')].textContent = UrlMessage
             /\ nodes'[Len(nodes')].inBody]_vars

\* C1, amended: the same, the characters after "/" being one or more characters
\* none of which is a line terminator (U+000A, U+000D, U+2028, U+2029).
C1_BlurValidates ==
    [][event' = "blur" =>
        IF urlValue = <<>> \/ MatchesYouTubeOnOneLine(urlValue)
        THEN /\ urlBorder' = "#27ae60"
             /\ nodes' = nodes /\ calls' = calls /\ timers' = timers
        ELSE /\ urlBorder' = "#e74c3c"
             /\ Len(nodes') = Len(nodes) + 1
             /\ SubSeq(nodes', 1, Len(nodes)) = nodes
             /\ nodes'[Len(nodes')].className = "notification error"
             /\ nodes'[Len(nodes')].textContent = UrlMessage
             /\ nodes'[Len(nodes')].inBody]_vars

C1_Witness ==
    /\ event = "blur"
    /\ urlValue = Chars("youtube.com/") \o <<"U+2028">>
    /\ urlBorder = "#e74c3c"
    /\ Len(nodes) = 1 /\ nodes[1].inBody /\ nodes[1].background = "#e74c3c"

\* C2: under fair timers, every notification node that is in the body is
\* eventually removed from it.
C2_EventuallyRemoved ==
    \A i \in 1..MaxNotifyCalls :
        (i <= Len(nodes) /\ nodes[i].inBody) ~> (i <= Len(nodes) /\ ~nodes[i].inBody)

C2_Witness ==
    /\ event = "remove"
    /\ \E i \in 1..Len(nodes) : calls[i].threw = "none" /\ ~nodes[i].inBody
    /\ InBody(nodes) # {}

\* showNotification("x", "success") calls that returned
IsXSuccess(i) ==
    calls[i].message = "x" /\ calls[i].type = "success" /\ calls[i].threw = "none"

\* C3 as stated: one green node, in the body right after the call and 2000 ms
\* after it, and absent at or after 3300 ms after the call.
C3_AbsentFrom3300 ==
    /\ Len(nodes) = Len(calls)
    /\ \A i \in 1..Len(calls) :
        IsXSuccess(i) =>
            /\ nodes[i].background = "#27ae60"
            /\ calls[i].elapsed = 0 => nodes[i].inBody
            /\ calls[i].elapsed = 2000 => nodes[i].inBody
            /\ calls[i].elapsed >= 3300 => ~nodes[i].inBody

\* C3, amended: one green node, in the body at every time before 3300 ms after
\* the call (so right after the call and at 2000 ms), and out of the body
\* exactly when its removal callback has run, which is at 3300 ms or later.
C3_PresentBefore3300 ==
    /\ Len(nodes) = Len(calls)
    /\ \A i \in 1..Len(calls) :
        IsXSuccess(i) =>
            /\ nodes[i].background = "#27ae60"
            /\ calls[i].elapsed < 3300 => nodes[i].inBody
            /\ nodes[i].inBody <=> i \in Pending(timers)

C3_Witness ==
    \E i \in 1..Len(calls) :
        IsXSuccess(i) /\ calls[i].elapsed = 3300 /\ ~nodes[i].inBody

\* C4: the input handler colours the password border by the length of the
\* value alone: #e74c3c iff length < 6, #f39c12 iff 6 <= length < 10,
\* #27ae60 iff length >= 10.
C4_StrengthByLength ==
    event = "input" =>
        /\ pwBorder \in {"#e74c3c", "#f39c12", "#27ae60"}
        /\ pwBorder = "#e74c3c" <=> Len(pwValue) < 6
        /\ pwBorder = "#f39c12" <=> (6 <= Len(pwValue) /\ Len(pwValue) < 10)
        /\ pwBorder = "#27ae60" <=> Len(pwValue) >= 10

C4_Witness ==
    event = "input" /\ Len(pwValue) = 10 /\ pwBorder = "#27ae60"

\* C5: registration binds the blur listener iff video_url exists and the
\* input listener iff password exists, each independently of the other, and
\* raises nothing.
C5_AbsentFieldTolerance ==
    /\ blurListeners = IF loaded /\ hasVideoUrl THEN 1 ELSE 0
    /\ inputListeners = IF loaded /\ hasPassword THEN 1 ELSE 0
    /\ event = "load" => thrown = "none"

C5_Witness ==
    /\ event = "load" /\ ~hasVideoUrl /\ hasPassword
    /\ blurListeners = 0 /\ inputListeners = 1

\* C6: a blur that follows a blur of the same value sets the same border
\* colour, and every blur of an invalid value adds one more notification with
\* its own timer, whatever is already shown.
C6_NoHiddenState ==
    [][event' = "blur" =>
        /\ event = "blur" => urlBorder' = urlBorder
        /\ urlBorder' = "#e74c3c" =>
            /\ Len(nodes') = Len(nodes) + 1
            /\ InBody(nodes') = InBody(nodes) \cup {Len(nodes')}
            /\ Pending(timers') = Pending(timers) \cup {Len(nodes')}]_vars

C6_Witness ==
    /\ event = "blur"
    /\ Len(nodes) = 2
    /\ \A i \in 1..2 : /\ nodes[i].textContent = UrlMessage
                       /\ nodes[i].inBody
                       /\ calls[i].elapsed = 0

\* C7: while document.body is unavailable every showNotification call ends
\* with an uncaught TypeError, no node is in the body and no timer is
\* scheduled.
C7_NoBodyThrows ==
    ~body =>
        /\ event = "call" => thrown = "TypeError"
        /\ \A i \in 1..Len(calls) : calls[i].threw = "TypeError"
        /\ InBody(nodes) = {}
        /\ timers = {}

C7_Witness ==
    ~body /\ event = "call" /\ thrown = "TypeError" /\ Len(calls) = 2

\* the phase of the node of call i
PhaseOf(ns, cs, i) ==
    IF ns[i].inBody
    THEN IF ns[i].animation = SlideIn THEN "visible" ELSE "dismissing"
    ELSE IF cs[i].threw = "none" THEN "removed" ELSE "failed"

\* C8: a notification goes visible -> dismissing only in the display timer's
\* callback and dismissing -> removed only in the removal timer's callback,
\* with no other change of phase; a removal timer is scheduled only by the
\* display timer's callback; edit, blur and input events leave the existing
\* nodes as they are.
C8_ForwardOnTimers ==
    [][/\ \A i \in 1..Len(nodes) :
            PhaseOf(nodes', calls', i) # PhaseOf(nodes, calls, i) =>
                \/ /\ PhaseOf(nodes, calls, i) = "visible"
                   /\ PhaseOf(nodes', calls', i) = "dismissing"
                   /\ event' = "slideOut"
                \/ /\ PhaseOf(nodes, calls, i) = "dismissing"
                   /\ PhaseOf(nodes', calls', i) = "removed"
                   /\ event' = "remove"
       /\ Len(nodes') > Len(nodes) =>
            PhaseOf(nodes', calls', Len(nodes')) \in {"visible", "failed"}
       /\ PendingRemoval(timers') \ PendingRemoval(timers) # {} => event' = "slideOut"
       /\ event' \in {"edit", "blur", "input"} =>
            SubSeq(nodes', 1, Len(nodes)) = nodes]_vars

C8_Witness ==
    /\ event = "remove"
    /\ Len(nodes) = 2
    /\ PhaseOf(nodes, calls, 1) = "removed"
    /\ PhaseOf(nodes, calls, 2) = "visible"
    /\ urlBorder = "#e74c3c"

\* C9: the nodes in the body are exactly the nodes of the calls that returned
\* and whose removal callback has not run yet (each has exactly one pending
\* timer), and no removal callback finds its node missing from the body.
C9_Independent ==
    /\ InBody(nodes) = {i \in 1..Len(calls) : calls[i].threw = "none"
                                               /\ i \in Pending(timers)}
    /\ \A i \in InBody(nodes) : Cardinality({t \in timers : t.node = i}) = 1
    /\ Pending(timers) \subseteq InBody(nodes)
    /\ thrown # "NotFoundError"

C9_Witness ==
    /\ Len(nodes) = 2
    /\ nodes[1].inBody /\ nodes[1].animation = SlideOut
    /\ nodes[2].inBody /\ nodes[2].animation = SlideIn

\* the values whose host is "youtu" + c + "be", followed by "/abc123"
YoutuCBe(c) ==
    {Chars(sch \o w \o "youtu" \o c \o "be" \o "/abc123") : sch \in Schemes, w \in Wwws}

\* C10 as stated: a value whose host is "youtuXbe", followed by "/" and more
\* characters, is marked valid.
C10_WildcardBeforeBe ==
    (event = "blur" /\ urlValue \in YoutuCBe("X")) => urlBorder = "#27ae60"

\* C10, amended: the character between "youtu" and "be" is an optional
\* literal dot: the hosts "youtube" and "youtu.be" are accepted, "youtuXbe" is
\* not.
C10_OptionalLiteralDot ==
    event = "blur" =>
        \A c \in {"", ".", "X"} :
            urlValue \in YoutuCBe(c) => (urlBorder = "#27ae60" <=> c \in {"", "."})

C10_Witness ==
    event = "blur" /\ urlValue = Chars("https://youtuXbe/abc123") /\ urlBorder = "#e74c3c"
====
